---- MODULE Spec2Model ----
(***************************************************************************)
(* State-machine model of src/src/components/CommentList.tsx: the          *)
(* CommentList component (pagination state, loadMore, mount-time           *)
(* hydration from localforage, the Virtuoso endReached callback, the       *)
(* orientation toggle) together with its collaborators: the page fetcher,  *)
(* the localforage store and React's render/commit of the component.       *)
(*                                                                         *)
(* React state is held in comments/page/loading/hasMore/isHorizontal.      *)
(* loadMore is a useCallback closure: its guard and its `page` read the    *)
(* values captured by the render that created it, which is what `closure`  *)
(* holds.  The mount effect has an empty dependency list, so the loadMore   *)
(* it calls is the closure of the first render.                            *)
(***************************************************************************)
EXTENDS Integers, Sequences, FiniteSets, TLC

\* src/src/components/CommentList.tsx:62
PAGE_SIZE == 20

\* Bound on the number of fetchComments calls in one behaviour.
MaxFetch == 2

\* Lengths of the short pages an injected fetcher returns (< PAGE_SIZE).
ShortLens == {0, 5}

\* The result of localforage.getItem on a key that was never written (null).
Absent == [absent |-> TRUE]

\* fetchComments: ids of the n comments of page p (id = page*pageSize + i + 1).
PageItems(p, n) == [i \in 1..n |-> p * PAGE_SIZE + i]

\* The record saveCommentsToDB hands to localforage.setItem.
Snap(c, p, h) == [comments |-> c, page |-> p, hasMore |-> h]

\* Snapshots left in the store by an earlier session of the component.
EarlierSnaps ==
    { Snap(PageItems(0, PAGE_SIZE), 1, TRUE),
      Snap(PageItems(0, PAGE_SIZE) \o PageItems(1, 5), 2, FALSE),
      Snap(<<>>, 1, FALSE) }

InitStores == {Absent} \cup EarlierSnaps

\* cache.comments || []
CacheComments(cache) ==
    IF "comments" \in DOMAIN cache THEN cache.comments ELSE <<>>

\* Mutant of CachePage: hydration restarts pagination at page 0.
CachePageReset(cache) == 0

\* cache.page || 0
CachePage(cache) ==
    IF "page" \in DOMAIN cache THEN cache.page ELSE 0

\* typeof cache.hasMore === 'boolean' ? cache.hasMore : true
CacheHasMore(cache) ==
    IF "hasMore" \in DOMAIN cache /\ cache.hasMore \in BOOLEAN
    THEN cache.hasMore ELSE TRUE

\* Bound on the setItem calls pending at once when the store is driven
\* directly.
MaxPending == 2

\* Mutant of LoadKey: the read uses another key than the write.
LoadKeyOther == "comments_cache"

\* The key saveCommentsToDB writes (line 16).
SaveKey == "comment_list_cache"

\* The key getCommentsFromDB reads (line 23).
LoadKey == "comment_list_cache"

\* comments[index] of an index the array does not have (comment ids start
\* at 1).
Undefined == 0

\* Row indices Virtuoso asks for: the first row, both sides of the first page
\* boundary and far beyond
\* the loaded data.
ProbeIndices == {0, 19, 20, 1000}

\* Arguments saveCommentsToDB is called with when the store is driven
\* directly.
RtComments == {<<>>, PageItems(0, 5), PageItems(0, PAGE_SIZE)}

RtPages == 0..2

\* getCommentsFromDB has not been called since the last completed save.
NotLoaded == [notLoaded |-> TRUE]

\* The store before any setItem: every key reads as null.
RtInit ==
    [db |-> [k \in {SaveKey, LoadKey} |-> Absent],
     queue |-> <<>>,
     saved |-> <<>>,
     loaded |-> NotLoaded]

VARIABLES
    comments,       \* useState: loaded comments (sequence of ids)
    page,           \* useState: next page index
    loading,        \* useState: loading flag
    hasMore,        \* useState: more pages expected
    isHorizontal,   \* useState: scroll orientation
    closure,        \* loading/hasMore/page captured by the committed loadMore
    mounted,        \* the component is mounted
    mountPc,        \* mount effect: "reading", "done" or "failed"
    inflight,       \* fetchComments calls not yet settled
    nFetch,         \* number of fetchComments calls issued
    store,          \* localforage record under 'comment_list_cache'
    pendingWrites,  \* setItem calls not yet settled, in issue order
    lastOp,         \* history: the last operation and its outcome
    shortSeen,      \* history: a mounted load received a short page
    fetchLog,       \* history: page indices requested, in issue order
    appended,       \* history: the pages mounted loads received, concatenated
    hydrated,       \* history: the snapshot the mount effect adopted, if any
    failedAt,       \* history: nFetch when a setItem last rejected, or -1
    rejected,       \* history: some fetchComments call has rejected
    rt              \* the store driven through saveCommentsToDB/getCommentsFromDB

vars == <<comments, page, loading, hasMore, isHorizontal, closure, mounted,
          mountPc, inflight, nFetch, store, pendingWrites, lastOp, shortSeen,
          fetchLog, appended, hydrated, failedAt, rejected, rt>>

\* The values a render captures into loadMore (deps [loading, hasMore, page]).
Captured == [loading |-> loading, hasMore |-> hasMore, page |-> page]

\* The loadMore created by the first render (lines 69-75 initial values).
FirstRender == [loading |-> FALSE, hasMore |-> TRUE, page |-> 0]

Init ==
    /\ comments = <<>>
    /\ page = 0
    /\ loading = FALSE
    /\ hasMore = TRUE
    /\ isHorizontal = FALSE
    /\ closure = FirstRender
    /\ mounted = TRUE
    /\ mountPc = "reading"
    /\ inflight = {}
    /\ nFetch = 0
    /\ store \in InitStores
    /\ pendingWrites = <<>>
    /\ lastOp = "mount"
    /\ shortSeen = FALSE
    /\ fetchLog = <<>>
    /\ appended = <<>>
    /\ hydrated = Absent
    /\ failedAt = -1
    /\ rejected = FALSE
    /\ rt = RtInit

\* loadMore up to its await (lines 82-85), run with the closure c.
\* State setters of an unmounted component have no effect.
loadMore(c) ==
    IF c.loading \/ ~c.hasMore
    THEN /\ lastOp' = "loadMore:noop"
         /\ UNCHANGED <<loading, inflight, nFetch, fetchLog>>
    ELSE /\ nFetch < MaxFetch
         /\ loading' = IF mounted THEN TRUE ELSE loading
         /\ inflight' = inflight \cup {[id |-> nFetch + 1, page |-> c.page]}
         /\ nFetch' = nFetch + 1
         /\ fetchLog' = Append(fetchLog, c.page)
         /\ lastOp' = "loadMore:fetch"

\* Virtuoso calls endReached={loadMore} with the committed closure.  The
\* component puts no condition of its own on the callback, so the call may
\* come at any time while mounted: before the cache read resolves, and
\* before React commits the render that follows an earlier call.
EndReached ==
    /\ mounted
    /\ loadMore(closure)
    /\ UNCHANGED <<comments, page, hasMore, isHorizontal, closure, mounted,
                   mountPc, store, pendingWrites, shortSeen, appended,
                   hydrated, failedAt, rejected,
                   rt>>

\* Mount effect, cache hit (lines 101-105).
HydrateHit ==
    /\ mountPc = "reading"
    /\ store # Absent
    /\ mountPc' = "done"
    /\ IF mounted
       THEN /\ comments' = CacheComments(store)
            /\ page' = CachePage(store)
            /\ hasMore' = CacheHasMore(store)
            /\ hydrated' = store
       ELSE UNCHANGED <<comments, page, hasMore, hydrated>>
    /\ lastOp' = "hydrate:hit"
    /\ UNCHANGED <<loading, isHorizontal, closure, mounted, inflight, nFetch,
                   store, pendingWrites, shortSeen, fetchLog, appended,
                   failedAt, rejected,
                   rt>>

\* Mount effect, cache miss (lines 101, 106-108): the first render's loadMore.
HydrateMiss ==
    /\ mountPc = "reading"
    /\ store = Absent
    /\ mountPc' = "done"
    /\ loadMore(FirstRender)
    /\ UNCHANGED <<comments, page, hasMore, isHorizontal, closure, mounted,
                   store, pendingWrites, shortSeen, appended, hydrated,
                   failedAt, rejected,
                   rt>>

\* Mount effect, getItem rejects: the async function ends at line 101.
HydrateReject ==
    /\ mountPc = "reading"
    /\ mountPc' = "failed"
    /\ lastOp' = "hydrate:reject"
    /\ UNCHANGED <<comments, page, loading, hasMore, isHorizontal, closure,
                   mounted, inflight, nFetch, store, pendingWrites, shortSeen,
                   fetchLog, appended, hydrated, failedAt, rejected,
                   rt>>

\* Mutant of FetchResolve: the save is awaited, so loading is not cleared
\* when the page arrives.
FetchResolveAwaitsSave(call, n, handed) ==
    /\ call \in inflight
    /\ inflight' = inflight \ {call}
    /\ LET newComments == PageItems(call.page, n)
           updated == comments \o newComments
       IN /\ pendingWrites' =
                IF handed
                THEN Append(pendingWrites,
                            Snap(updated, call.page + 1, n >= PAGE_SIZE))
                ELSE pendingWrites
          /\ IF mounted
             THEN /\ comments' = updated
                  /\ page' = page + 1
                  /\ hasMore' = IF n < PAGE_SIZE THEN FALSE ELSE hasMore
                  /\ loading' = loading
                  /\ shortSeen' = (shortSeen \/ n < PAGE_SIZE)
                  /\ appended' = appended \o newComments
             ELSE UNCHANGED <<comments, page, hasMore, loading, shortSeen,
                              appended>>
    /\ lastOp' = "fetch:ok"
    /\ UNCHANGED <<isHorizontal, closure, mounted, mountPc, nFetch, store,
                   fetchLog, hydrated, failedAt, rejected,
                   rt>>

\* loadMore after its await resolves with n comments (lines 85-93).
\* `handed` is FALSE only for an unmounted component whose updater React
\* never runs.
FetchResolve(call, n, handed) ==
    /\ call \in inflight
    /\ inflight' = inflight \ {call}
    /\ LET newComments == PageItems(call.page, n)
           updated == comments \o newComments
       IN /\ pendingWrites' =
                IF handed
                THEN Append(pendingWrites,
                            Snap(updated, call.page + 1, n >= PAGE_SIZE))
                ELSE pendingWrites
          /\ IF mounted
             THEN /\ comments' = updated
                  /\ page' = page + 1
                  /\ hasMore' = IF n < PAGE_SIZE THEN FALSE ELSE hasMore
                  /\ loading' = FALSE
                  /\ shortSeen' = (shortSeen \/ n < PAGE_SIZE)
                  /\ appended' = appended \o newComments
             ELSE UNCHANGED <<comments, page, hasMore, loading, shortSeen,
                              appended>>
    /\ lastOp' = "fetch:ok"
    /\ UNCHANGED <<isHorizontal, closure, mounted, mountPc, nFetch, store,
                   fetchLog, hydrated, failedAt, rejected,
                   rt>>

\* Mutant of FetchReject: a rejection is treated as an empty last page.
FetchRejectAsLastPage(call) ==
    /\ call \in inflight
    /\ inflight' = inflight \ {call}
    /\ hasMore' = (IF mounted THEN FALSE ELSE hasMore)
    /\ pendingWrites' = Append(pendingWrites,
                                Snap(comments, call.page + 1, FALSE))
    /\ rejected' = TRUE
    /\ lastOp' = "fetch:reject"
    /\ UNCHANGED <<comments, page, loading, isHorizontal, closure, mounted,
                   mountPc, nFetch, store, shortSeen, fetchLog, appended,
                   hydrated, failedAt,
                   rt>>

\* The fetcher rejects: the await at line 85 throws and loadMore ends there.
FetchReject(call) ==
    /\ call \in inflight
    /\ inflight' = inflight \ {call}
    /\ rejected' = TRUE
    /\ lastOp' = "fetch:reject"
    /\ UNCHANGED <<comments, page, loading, hasMore, isHorizontal, closure,
                   mounted, mountPc, nFetch, store, pendingWrites, shortSeen,
                   fetchLog, appended, hydrated, failedAt,
                   rt>>

\* localforage.setItem settles (line 16); requests settle in issue order,
\* the mount's getItem first.
WriteOk ==
    /\ mountPc # "reading"
    /\ pendingWrites # <<>>
    /\ store' = Head(pendingWrites)
    /\ pendingWrites' = Tail(pendingWrites)
    /\ lastOp' = "write:ok"
    /\ UNCHANGED <<comments, page, loading, hasMore, isHorizontal, closure,
                   mounted, mountPc, inflight, nFetch, shortSeen, fetchLog,
                   appended, hydrated, failedAt, rejected,
                   rt>>

\* Mutant of WriteFail: the rejected save is awaited and ends the session's
\* pagination.
WriteFailStopsPaging ==
    /\ mountPc # "reading"
    /\ pendingWrites # <<>>
    /\ pendingWrites' = Tail(pendingWrites)
    /\ failedAt' = nFetch
    /\ hasMore' = FALSE
    /\ lastOp' = "write:fail"
    /\ UNCHANGED <<comments, page, loading, isHorizontal, closure, mounted,
                   mountPc, inflight, nFetch, store, shortSeen, fetchLog,
                   appended, hydrated, rejected,
                   rt>>

\* setItem rejects: nobody awaits or catches the promise of line 88.
WriteFail ==
    /\ mountPc # "reading"
    /\ pendingWrites # <<>>
    /\ pendingWrites' = Tail(pendingWrites)
    /\ failedAt' = nFetch
    /\ lastOp' = "write:fail"
    /\ UNCHANGED <<comments, page, loading, hasMore, isHorizontal, closure,
                   mounted, mountPc, inflight, nFetch, store, shortSeen,
                   fetchLog, appended, hydrated, rejected,
                   rt>>

\* React commits a render: useCallback re-creates loadMore (line 94).
Render ==
    /\ mounted
    /\ closure # Captured
    /\ closure' = Captured
    /\ lastOp' = "render"
    /\ UNCHANGED <<comments, page, loading, hasMore, isHorizontal, mounted,
                   mountPc, inflight, nFetch, store, pendingWrites, shortSeen,
                   fetchLog, appended, hydrated, failedAt, rejected,
                   rt>>

\* Mutant of Toggle: switching the orientation remounts the list from
\* scratch.
ToggleResetsList ==
    /\ mounted
    /\ isHorizontal' = ~isHorizontal
    /\ comments' = <<>>
    /\ page' = 0
    /\ lastOp' = "toggle"
    /\ UNCHANGED <<loading, hasMore, closure, mounted, mountPc, inflight,
                   nFetch, store, pendingWrites, shortSeen, fetchLog,
                   appended, hydrated, failedAt, rejected, rt>>

\* The orientation button (line 157).
Toggle ==
    /\ mounted
    /\ isHorizontal' = ~isHorizontal
    /\ lastOp' = "toggle"
    /\ UNCHANGED <<comments, page, loading, hasMore, closure, mounted,
                   mountPc, inflight, nFetch, store, pendingWrites, shortSeen,
                   fetchLog, appended, hydrated, failedAt, rejected,
                   rt>>

\* The router removes the component; nothing in flight is cancelled.
Unmount ==
    /\ mounted
    /\ mounted' = FALSE
    /\ lastOp' = "unmount"
    /\ UNCHANGED <<comments, page, loading, hasMore, isHorizontal, closure,
                   mountPc, inflight, nFetch, store, pendingWrites, shortSeen,
                   fetchLog, appended, hydrated, failedAt, rejected,
                   rt>>

\* Mutant of renderComment: the row is looked up one position too early.
renderCommentOffByOne(index) ==
    LET comment == IF index \in DOMAIN comments
                   THEN comments[index] ELSE Undefined
    IN IF comment = Undefined
       THEN [kind |-> "skeleton"]
       ELSE [kind |-> "row", id |-> comment]

\* renderComment (lines 117-151): comments[index] of the 0-based array, the
\* skeleton when there is no such element.
renderComment(index) ==
    LET comment == IF index + 1 \in DOMAIN comments
                   THEN comments[index + 1] ELSE Undefined
    IN IF comment = Undefined
       THEN [kind |-> "skeleton"]
       ELSE [kind |-> "row", id |-> comment]

\* Virtuoso asks itemContent={renderComment} for a row (line 170).
RenderRow ==
    /\ mounted
    /\ \E index \in ProbeIndices :
          lastOp' = IF renderComment(index).kind = "row"
                    THEN "renderRow:row" ELSE "renderRow:skeleton"
    /\ UNCHANGED <<comments, page, loading, hasMore, isHorizontal, closure,
                   mounted, mountPc, inflight, nFetch, store, pendingWrites,
                   shortSeen, fetchLog, appended, hydrated, failedAt,
                   rejected, rt>>

\* The component's own state and history, untouched when the store is
\* driven directly.
compVars == <<comments, page, loading, hasMore, isHorizontal, closure,
              mounted, mountPc, inflight, nFetch, store, pendingWrites,
              lastOp, shortSeen, fetchLog, appended, hydrated, failedAt,
              rejected>>

\* saveCommentsToDB(c, p, h) up to its await (lines 15-16).
saveCommentsToDB(c, p, h) ==
    /\ Len(rt.queue) < MaxPending
    /\ rt' = [rt EXCEPT !.queue =
                 Append(@, [key |-> SaveKey, value |-> Snap(c, p, h),
                            args |-> <<c, p, h>>])]
    /\ UNCHANGED compVars

RtSave == \E c \in RtComments, p \in RtPages, h \in BOOLEAN :
              saveCommentsToDB(c, p, h)

\* The oldest pending setItem completes: the record replaces the key's value.
RtSettle ==
    /\ rt.queue # <<>>
    /\ LET w == Head(rt.queue)
       IN rt' = [db |-> [rt.db EXCEPT ![w.key] = w.value],
                 queue |-> Tail(rt.queue),
                 saved |-> w.args,
                 loaded |-> NotLoaded]
    /\ UNCHANGED compVars

\* The oldest pending setItem rejects: the stored value stays.
RtSettleFail ==
    /\ rt.queue # <<>>
    /\ rt' = [rt EXCEPT !.queue = Tail(@)]
    /\ UNCHANGED compVars

\* getCommentsFromDB (lines 22-24) resolves with the value under its key.
getCommentsFromDB ==
    /\ rt' = [rt EXCEPT !.loaded = rt.db[LoadKey]]
    /\ UNCHANGED compVars

\* A fetchComments promise settles: with a full page, a short page, or a
\* rejection.
FetchSettles ==
    \E call \in inflight :
        \/ \E n \in ShortLens \cup {PAGE_SIZE} :
              \E handed \in (IF mounted THEN {TRUE} ELSE BOOLEAN) :
                  FetchResolve(call, n, handed)
        \/ FetchReject(call)

Next ==
    \/ EndReached
    \/ HydrateHit
    \/ HydrateMiss
    \/ HydrateReject
    \/ FetchSettles
    \/ WriteOk
    \/ WriteFail
    \/ Render
    \/ Toggle
    \/ Unmount
    \/ RenderRow

Spec == Init /\ [][Next]_vars

\* The store driven directly through the two store functions.
NextRT ==
    \/ RtSave
    \/ RtSettle
    \/ RtSettleFail
    \/ getCommentsFromDB

SpecRT == Init /\ [][NextRT]_vars

\* The repository's fetchComments (lines 31-59) resolves every call with
\* pageSize comments and never rejects.
FetchFull ==
    \E call \in inflight :
        \E handed \in (IF mounted THEN {TRUE} ELSE BOOLEAN) :
            FetchResolve(call, PAGE_SIZE, handed)

\* The component with the repository's own fetchComments.
NextRepo ==
    \/ EndReached
    \/ HydrateHit
    \/ HydrateMiss
    \/ HydrateReject
    \/ FetchFull
    \/ WriteOk
    \/ WriteFail
    \/ Render
    \/ Toggle
    \/ Unmount
    \/ RenderRow

SpecRepo == Init /\ [][NextRepo]_vars

(***************************************************************************)
(* Claims                                                                  *)
(***************************************************************************)

\* C1: in every reachable state at most one fetchComments call is
\* outstanding (a loadMore invoked while a fetch is pending starts none).
C1_AtMostOneOutstanding == Cardinality(inflight) <= 1

\* C2: once a mounted load has received a short page, hasMore is false in
\* every later state and no later step issues a fetch.
C2_ExhaustedStays ==
    /\ [](mounted /\ shortSeen => ~hasMore)
    /\ [][mounted /\ shortSeen => nFetch' = nFetch]_vars

\* C3: items is the hydrated items followed by every page the fetcher
\* returned, in order, and its length never decreases.
C3_Concatenation ==
    /\ [](mounted => comments = CacheComments(hydrated) \o appended)
    /\ [][mounted => Len(comments') >= Len(comments)]_vars

\* C4: after the fetcher rejects and no fetch is left outstanding, the
\* controller has left Loading (loading is false), so a retry can fetch.
C4_RejectExitsLoading ==
    (mounted /\ lastOp = "fetch:reject" /\ inflight = {}) => ~loading

\* C5: a rejected fetch leaves items, nextPage and hasMore as they were and
\* hands no snapshot to the store.
C5_RejectFrame ==
    [][lastOp' = "fetch:reject" =>
        /\ comments' = comments
        /\ page' = page
        /\ hasMore' = hasMore
        /\ pendingWrites' = pendingWrites
        /\ store' = store]_vars

\* C5 witness: a fetch was rejected after items had been loaded.
C5_Witness ==
    /\ lastOp = "fetch:reject"
    /\ mounted
    /\ comments # <<>>
    /\ page > 0

\* C6: on a cache hit the controller's items, nextPage and hasMore become
\* exactly the snapshot's comments, page and hasMore, and the mount routine
\* issues no fetch.
C6_HydrateAdopts ==
    [][(lastOp' = "hydrate:hit" /\ mounted) =>
        /\ comments' = store.comments
        /\ page' = store.page
        /\ hasMore' = store.hasMore
        /\ nFetch' = nFetch
        /\ inflight' = inflight]_vars

\* C6 witness: a snapshot with items and hasMore = false has been adopted.
C6_Witness ==
    /\ lastOp = "hydrate:hit"
    /\ mounted
    /\ nFetch = 0
    /\ Len(comments) = PAGE_SIZE + 5
    /\ page = 2
    /\ ~hasMore

\* C7: while a stored snapshot is still being read no fetch has been issued;
\* after a cache miss, exactly one fetch (of page 0) has been issued as long
\* as no loaded item has appeared.
C7_HydrationPrecedence ==
    /\ (mountPc = "reading" /\ store # Absent) => nFetch = 0
    /\ (mounted /\ mountPc = "done" /\ hydrated = Absent /\ comments = <<>>)
          => (nFetch = 1 /\ fetchLog = <<0>>)

\* C8: a rejected cache read is handled like a miss: the mount routine
\* calls loadMore, which fetches page 0.
C8_ReadFailureIsMiss ==
    [][lastOp' = "hydrate:reject" =>
        /\ nFetch' = nFetch + 1
        /\ fetchLog' = Append(fetchLog, 0)]_vars

\* C9: a settled save, rejected or not, leaves items, nextPage, hasMore and
\* loading (and the committed loadMore) unchanged, and a loadMore call is a
\* no-op only because of the loading/hasMore it captured.
C9_WriteFailureSwallowed ==
    /\ [][lastOp' \in {"write:fail", "write:ok"} =>
            /\ comments' = comments
            /\ page' = page
            /\ hasMore' = hasMore
            /\ loading' = loading
            /\ closure' = closure
            /\ inflight' = inflight]_vars
    /\ [][lastOp' = "loadMore:noop" =>
            (closure.loading \/ ~closure.hasMore)]_vars

\* C9 witness: the first save was rejected, then a second loadMore fetched
\* and appended the next page.
C9_Witness ==
    /\ failedAt = 1
    /\ nFetch = 2
    /\ lastOp = "fetch:ok"
    /\ mounted
    /\ inflight = {}
    /\ hydrated = Absent
    /\ store = Absent
    /\ comments = PageItems(0, PAGE_SIZE) \o PageItems(1, PAGE_SIZE)
    /\ page = 2

\* C10: every successful append hands exactly one snapshot to the store,
\* equal to the controller's items, nextPage and hasMore after the append.
C10_SnapshotIsState ==
    [][(lastOp' = "fetch:ok" /\ mounted) =>
        /\ Len(pendingWrites') = Len(pendingWrites) + 1
        /\ pendingWrites'[Len(pendingWrites')] =
               Snap(comments', page', hasMore')]_vars

\* C11: once a completed write is the last thing that happened and no write
\* is outstanding, the persisted snapshot equals the controller's current
\* items, nextPage and hasMore.
C11_LastWriteIsState ==
    (mounted /\ lastOp = "write:ok" /\ pendingWrites = <<>> /\ inflight = {})
        => store = Snap(comments, page, hasMore)

C13_LengthIsPageMultiple ==
    (mounted /\ ~shortSeen /\ (hydrated = Absent \/ hydrated.hasMore)) =>
        /\ Len(comments) = page * PAGE_SIZE
        /\ \A i \in DOMAIN pendingWrites :
              pendingWrites[i].hasMore =>
                  Len(pendingWrites[i].comments) =
                      pendingWrites[i].page * PAGE_SIZE

\* C14: no committed render shows both footer texts: loading true and
\* hasMore false never hold together in a rendered state.
C14_FooterExclusive ==
    mounted => ~(closure.loading /\ ~closure.hasMore)

\* C15: the orientation toggle flips isHorizontal and changes nothing else:
\* no item, page, flag, fetch or cache write.
C15_ToggleFrame ==
    [][lastOp' = "toggle" =>
        /\ isHorizontal' = ~isHorizontal
        /\ comments' = comments
        /\ page' = page
        /\ loading' = loading
        /\ hasMore' = hasMore
        /\ inflight' = inflight
        /\ nFetch' = nFetch
        /\ pendingWrites' = pendingWrites
        /\ store' = store]_vars

\* C15 witness: the orientation was toggled while a fetch was in flight.
C15_Witness ==
    /\ lastOp = "toggle"
    /\ isHorizontal
    /\ loading
    /\ inflight # {}
    /\ comments # <<>>

\* C16: renderComment(index) is the loaded row of items[index] for
\* 0 <= index < items.length and the skeleton for every larger index, and
\* asking for a row changes no state.
C16_RenderRow ==
    /\ [](\A index \in ProbeIndices :
            renderComment(index) =
                IF index < Len(comments)
                THEN [kind |-> "row", id |-> comments[index + 1]]
                ELSE [kind |-> "skeleton"])
    /\ [][lastOp' \in {"renderRow:row", "renderRow:skeleton"} =>
            /\ comments' = comments
            /\ page' = page
            /\ loading' = loading
            /\ hasMore' = hasMore
            /\ isHorizontal' = isHorizontal
            /\ inflight' = inflight
            /\ pendingWrites' = pendingWrites
            /\ store' = store]_vars

\* C16 witness: with exactly 20 items loaded a row beyond them was asked
\* for, and index 1000 is the skeleton while index 19 is a row.
C16_Witness ==
    /\ lastOp = "renderRow:skeleton"
    /\ Len(comments) = PAGE_SIZE
    /\ renderComment(1000) = [kind |-> "skeleton"]
    /\ renderComment(19) = [kind |-> "row", id |-> PAGE_SIZE]

\* C17: every fetch is issued with the controller's current nextPage and,
\* as long as no fetch was rejected, the requested page indices are
\* consecutive, none requested twice.
C17_ConsecutivePages ==
    /\ [][lastOp' = "loadMore:fetch" =>
            fetchLog'[Len(fetchLog')] = page]_vars
    /\ [](~rejected =>
            \A i \in 1..(Len(fetchLog) - 1) :
                fetchLog[i + 1] = fetchLog[i] + 1)

\* C18: when a page arrives the load completes at once: loading is false
\* in the very state in which the write it triggered is still outstanding.
C18_LoadDoesNotAwaitSave ==
    [][(lastOp' = "fetch:ok" /\ mounted) =>
        /\ loading' = FALSE
        /\ Len(pendingWrites') = Len(pendingWrites) + 1]_vars

\* C18 witness: the second loadMore (page 1) has started its fetch while the
\* first load's write is still outstanding.
C18_Witness ==
    /\ lastOp = "loadMore:fetch"
    /\ mounted
    /\ hydrated = Absent
    /\ store = Absent
    /\ comments = PageItems(0, PAGE_SIZE)
    /\ inflight = {[id |-> 2, page |-> 1]}
    /\ pendingWrites = <<Snap(PageItems(0, PAGE_SIZE), 1, TRUE)>>
    /\ loading

\* C19: once the component is unmounted no step changes items, nextPage,
\* loading or hasMore, and no snapshot is handed to the store.
C19_NothingAfterUnmount ==
    [][~mounted =>
        /\ comments' = comments
        /\ page' = page
        /\ loading' = loading
        /\ hasMore' = hasMore
        /\ Len(pendingWrites') <= Len(pendingWrites)]_vars

\* C20: with the repository's fetchComments hasMore turns false only by
\* hydrating a snapshot, and an endReached that comes after a completed
\* load, with no fetch outstanding and hasMore true, is never a no-op.
C20_NeverExhausts ==
    /\ [][(hasMore /\ ~hasMore') => lastOp' = "hydrate:hit"]_vars
    /\ [][(lastOp' = "loadMore:noop" /\ mounted) =>
            ~(hasMore /\ ~loading /\ inflight = {} /\ appended # <<>>)]_vars

====
